---- MODULE Spec2Model ----
(***************************************************************************)
(* Model of the backtesting core of sandt_v1:                              *)
(*   backtesting/strategies.py  SMAStrategy, EMAStrategy, RSIStrategy      *)
(*   backtesting/engine.py      BacktestEngine.run, _calculate_portfolio,  *)
(*                              _calculate_metrics                         *)
(*                                                                         *)
(* Floating-point values are modelled as exact rationals <<n, d>> in       *)
(* lowest terms with d > 0; <<0, 0>> is NaN, <<1, 0>> and <<-1, 0>> are    *)
(* +inf and -inf.  Series (DataFrame columns) are sequences, indexed from  *)
(* 1, so row t of the model is iloc[t-1] of the code.                      *)
(***************************************************************************)
EXTENDS Integers, Sequences, FiniteSets, TLC

(* ------------------------------ bounds --------------------------------- *)
MaxBars == 4        \* longest price series
MaxClose == 2       \* closes are drawn from 1..MaxClose
MaxWindow == 2      \* strategy windows are drawn from 1..MaxWindow
MaxCapital == 1     \* initial_capital is drawn from 0..MaxCapital

(* --------------------------- float arithmetic -------------------------- *)
VARIABLE mantissa     \* significand width of the float format; 0: results kept exact

Abs(x) == IF x < 0 THEN -x ELSE x

Sign(x) == IF x > 0 THEN 1 ELSE IF x < 0 THEN -1 ELSE 0

RECURSIVE GCD(_, _)
GCD(a, b) == IF b = 0 THEN a ELSE GCD(b, a % b)

NaN == <<0, 0>>

Norm(n, d) ==
    IF d = 0 THEN <<Sign(n), 0>>
    ELSE LET g == GCD(Abs(n), Abs(d))
             s == Sign(d)
         IN  <<(s * n) \div g, (s * d) \div g>>

Flt(k) == <<k, 1>>

\* the binary exponent e with 2^(p-1) <= (n / d) / 2^e < 2^p, for n, d > 0
RECURSIVE Exponent(_, _, _)
Exponent(n, d, p) ==
    IF n >= d * 2 ^ p THEN Exponent(n, 2 * d, p) + 1
    ELSE IF n < d * 2 ^ (p - 1) THEN Exponent(2 * n, d, p) - 1
    ELSE 0

\* the nearest value with a p-bit significand, ties to the even significand
RoundTo(x, p) ==
    LET n == Abs(x[1])
        e == Exponent(n, x[2], p)
        num == IF e < 0 THEN n * 2 ^ (-e) ELSE n
        den == IF e < 0 THEN x[2] ELSE x[2] * 2 ^ e
        q == num \div den
        r == num % den
        m == IF 2 * r > den \/ (2 * r = den /\ q % 2 = 1) THEN q + 1 ELSE q
    IN  IF e < 0 THEN Norm(Sign(x[1]) * m, 2 ^ (-e)) ELSE <<Sign(x[1]) * m * 2 ^ e, 1>>

\* the result of an arithmetic operation of the simulator as the float format
\* stores it (the arithmetic of the signals and of the metrics is kept exact)
Rnd(x) == IF mantissa = 0 \/ x[1] = 0 \/ x[2] = 0 THEN x ELSE RoundTo(x, mantissa)

IsNaN(x) == x = NaN

IsInf(x) == x[2] = 0 /\ x[1] # 0

\* x + y in IEEE arithmetic: NaN propagates, inf + (-inf) is NaN
FAdd(x, y) ==
    IF IsNaN(x) \/ IsNaN(y) THEN NaN
    ELSE IF IsInf(x) /\ IsInf(y) THEN (IF x = y THEN x ELSE NaN)
    ELSE IF IsInf(x) THEN x
    ELSE IF IsInf(y) THEN y
    ELSE LET g == GCD(x[2], y[2])
         IN  Norm(x[1] * (y[2] \div g) + y[1] * (x[2] \div g), (x[2] \div g) * y[2])

\* x * y in IEEE arithmetic: 0 * inf is NaN
FMul(x, y) ==
    IF IsNaN(x) \/ IsNaN(y) THEN NaN
    ELSE IF IsInf(x) \/ IsInf(y)
         THEN (IF x[1] = 0 \/ y[1] = 0 THEN NaN ELSE <<Sign(x[1]) * Sign(y[1]), 0>>)
    ELSE LET g == GCD(Abs(x[1]), y[2])
             h == GCD(Abs(y[1]), x[2])
         IN  Norm((x[1] \div g) * (y[1] \div h), (x[2] \div h) * (y[2] \div g))

\* x / y with a numpy.float64 operand: x / 0 is +-inf (0 / 0 is NaN), no exception
FDiv(x, y) ==
    IF IsNaN(x) \/ IsNaN(y) THEN NaN
    ELSE IF IsInf(y) THEN (IF IsInf(x) THEN NaN ELSE Flt(0))
    ELSE IF IsInf(x) THEN <<Sign(x[1]) * (IF y[1] < 0 THEN -1 ELSE 1), 0>>
    ELSE IF y[1] = 0 THEN <<Sign(x[1]), 0>>
    ELSE LET g == GCD(Abs(x[1]), Abs(y[1]))
             h == GCD(x[2], y[2])
         IN  Norm((x[1] \div g) * (y[2] \div h), (x[2] \div h) * (y[1] \div g))

FSub(x, y) == FAdd(x, <<-y[1], y[2]>>)

\* x > y: every comparison with NaN is False
FGt(x, y) ==
    /\ ~IsNaN(x)
    /\ ~IsNaN(y)
    /\ x # y
    /\ IF IsInf(x) THEN x[1] > 0
       ELSE IF IsInf(y) THEN y[1] < 0
       ELSE LET g == GCD(x[2], y[2])
            IN  x[1] * (y[2] \div g) > y[1] * (x[2] \div g)

FLt(x, y) == FGt(y, x)

Last(s) == s[Len(s)]

\* the sum of a series, added up by halves to keep the evaluation shallow
RECURSIVE FSum(_)
FSum(s) ==
    IF s = <<>> THEN Flt(0)
    ELSE IF Len(s) = 1 THEN s[1]
    ELSE LET h == Len(s) \div 2
         IN  FAdd(FSum(SubSeq(s, 1, h)), FSum(SubSeq(s, h + 1, Len(s))))

\* int(x): truncation toward zero of a finite float
Trunc(x) == Sign(x[1]) * (Abs(x[1]) \div x[2])

\* round(x, 2): nearest multiple of 0.01, ties to even; NaN and inf stay
Round2(x) ==
    IF x[2] = 0 THEN x
    ELSE LET n == Abs(x[1]) * 100
             q == n \div x[2]
             r == n % x[2]
             m == IF 2 * r > x[2] \/ (2 * r = x[2] /\ q % 2 = 1) THEN q + 1 ELSE q
         IN  Norm(Sign(x[1]) * m, 100)

(* ------------------------------- state --------------------------------- *)
VARIABLES
    data_columns,     \* self.data.columns, the columns of the engine's stored frame
    close,            \* self.data['close'], the engine's price series
    strategy,         \* the strategy object passed to run
    initial_capital,  \* self.initial_capital
    pc,               \* position of run: "run", "setup", "loop", "return", "done", "failed"
    signal,           \* df['signal']
    df_position,      \* df['position'], the position-change series
    i,                \* number of completed iterations of the simulation loop
    position,         \* local position of _calculate_portfolio: 0 FLAT, 1 LONG
    shares,           \* local shares
    cash,             \* local cash
    holdings,         \* df['holdings']
    df_cash,          \* df['cash']
    portfolio_value,  \* df['portfolio_value']
    metrics,          \* the record returned by _calculate_metrics
    result,           \* outcome of the current call: "none", "returned" or "raised"
    executed,         \* history: the conversions the loop has executed, in order
    returned,         \* history: the result dictionaries run has returned, in order
    environ,          \* os.environ: YFINANCE_TIMEOUT and YFINANCE_MAX_RETRIES
    fetcher_args,     \* the arguments DataFetcher(timeout, max_retries) is called with
    fetcher,          \* the DataFetcher object: self.timeout, self.max_retries
    fetch,            \* the frame of fetch_data / get_latest_price and its outcome
    history_calls,    \* history: what each ticker.history() call did, in order
    sleeps,           \* history: the arguments of the time.sleep() calls, in order
    parquet_file,     \* the cache file of (symbol, start_date, end_date): NoFile or what it holds
    offline           \* the frame of download_and_save_data / BacktestEngine(...) and its outcome

engine_vars == <<mantissa, data_columns, close, strategy, initial_capital, pc, signal, df_position, i, position,
                 shares, cash, holdings, df_cash, portfolio_value, metrics, result,
                 executed, returned>>

fetcher_vars == <<environ, fetcher_args, fetcher, fetch, history_calls, sleeps>>

offline_vars == <<parquet_file, offline>>

vars == <<engine_vars, fetcher_vars, offline_vars>>

(* --------------------------- signal generator -------------------------- *)
\* rolling(window=w, min_periods=1).mean(): the mean of what is available
RollingMean_MinPeriods1(s, w) ==
    [t \in 1..Len(s) |->
        IF t < w THEN FDiv(FSum(SubSeq(s, 1, t)), Flt(t))
        ELSE FDiv(FSum(SubSeq(s, t - w + 1, t)), Flt(w))]

\* rolling(window=w, center=True) as it comes out for w = 2: the window of
\* row t reaches one bar ahead of it
RollingMean_Centered(s, w) ==
    [t \in 1..Len(s) |->
        IF t + 1 < w \/ t + 1 > Len(s) THEN NaN
        ELSE FDiv(FSum(SubSeq(s, t - w + 2, t + 1)), Flt(w))]

\* series.rolling(window=w).mean(): NaN until w values are available
RollingMean(s, w) ==
    [t \in 1..Len(s) |->
        IF t < w THEN NaN
        ELSE FDiv(FSum(SubSeq(s, t - w + 1, t)), Flt(w))]

\* a buy signal where short >= long instead of short > long
CrossoverSignal_Geq(short, long) ==
    [t \in 1..Len(short) |->
        IF FLt(short[t], long[t]) THEN -1
        ELSE IF FGt(short[t], long[t]) \/ (~IsNaN(short[t]) /\ short[t] = long[t]) THEN 1
        ELSE 0]

\* the two assignments in the other order, so that an undefined average,
\* which compares False both ways, is left at the last value assigned
CrossoverSignal_NoNeutral(short, long) ==
    [t \in 1..Len(short) |-> IF FGt(short[t], long[t]) THEN 1 ELSE -1]

\* df['signal'] = 0, then 1 where short > long, then -1 where short < long
CrossoverSignal(short, long) ==
    [t \in 1..Len(short) |->
        IF FLt(short[t], long[t]) THEN -1
        ELSE IF FGt(short[t], long[t]) THEN 1
        ELSE 0]

\* the difference taken against the next row instead of the previous one
Diff_Backward(s) ==
    [t \in 1..Len(s) |-> IF t = Len(s) THEN NaN ELSE Flt(s[t] - s[t + 1])]

\* series.diff(): NaN at the first row, then s[t] - s[t-1]
Diff(s) ==
    [t \in 1..Len(s) |-> IF t = 1 THEN NaN ELSE Flt(s[t] - s[t - 1])]

\* series.ewm(span=n, adjust=False).mean(): y[0] = x[0],
\* y[t] = (1 - a) * y[t-1] + a * x[t] with a = 2 / (n + 1)
RECURSIVE EwmMean(_, _)
EwmMean(s, span) ==
    IF Len(s) = 1 THEN s
    ELSE LET a == FDiv(Flt(2), Flt(span + 1))
             prev == EwmMean(SubSeq(s, 1, Len(s) - 1), span)
         IN  Append(prev, FAdd(FMul(FSub(Flt(1), a), Last(prev)), FMul(a, Last(s))))

\* SMAStrategy.generate_signals, the signal column
SMASignal(c, st) ==
    CrossoverSignal(RollingMean(c, st.short_window), RollingMean(c, st.long_window))

\* EMAStrategy.generate_signals, the signal column
EMASignal(c, st) ==
    CrossoverSignal(EwmMean(c, st.short_window), EwmMean(c, st.long_window))

\* data['close'].diff() as a float series
FDiffSeries(s) ==
    [t \in 1..Len(s) |-> IF t = 1 THEN NaN ELSE FSub(s[t], s[t - 1])]

\* delta.where(delta > 0, 0): NaN > 0 is False, so the undefined row becomes 0
Gains(delta) ==
    [t \in 1..Len(delta) |-> IF FGt(delta[t], Flt(0)) THEN delta[t] ELSE Flt(0)]

\* -delta.where(delta < 0, 0)
Losses(delta) ==
    [t \in 1..Len(delta) |->
        IF FLt(delta[t], Flt(0)) THEN FSub(Flt(0), delta[t]) ELSE Flt(0)]

\* rs = gain / loss.replace(0, np.nan), then rs.fillna(inf): every undefined
\* quotient, whatever made it undefined, becomes +inf
RelativeStrength(gain, loss) ==
    [t \in 1..Len(gain) |->
        LET l == IF loss[t] = Flt(0) THEN NaN ELSE loss[t]
            q == FDiv(gain[t], l)
        IN  IF IsNaN(q) THEN <<1, 0>> ELSE q]

\* RSIStrategy.calculate_rsi
CalculateRSI(c, w) ==
    LET delta == FDiffSeries(c)
        rs == RelativeStrength(RollingMean(Gains(delta), w), RollingMean(Losses(delta), w))
    IN  [t \in 1..Len(c) |->
            FSub(Flt(100), FDiv(Flt(100), FAdd(Flt(1), rs[t])))]

\* RSIStrategy.generate_signals, the signal column
RSISignal(c, st) ==
    LET rsi == CalculateRSI(c, st.window)
    IN  [t \in 1..Len(c) |->
            IF FGt(rsi[t], Flt(st.overbought)) THEN -1
            ELSE IF FLt(rsi[t], Flt(st.oversold)) THEN 1
            ELSE 0]

\* strategy.generate_signals(self.data), dispatched on the strategy's class
StrategySignal(c, st) ==
    IF st.kind = "SMA" THEN SMASignal(c, st)
    ELSE IF st.kind = "EMA" THEN EMASignal(c, st)
    ELSE RSISignal(c, st)

(* ------------------------- portfolio simulator ------------------------- *)
\* the row the loop is about to process (iloc[i] of the code)
Row == i + 1

\* a loop over range(len(df) - 1), which leaves the last row out
InLoop_ShortByOne == pc = "loop" /\ i < Len(close) - 1

\* for i in range(len(df)): the loop still has a row to process
InLoop == pc = "loop" /\ i < Len(close)

\* pd.isna(df['position'].iloc[i])
Undefined == IsNaN(df_position[Row])

\* a buy branch that does not look at the current state
BuySignal_AnyState == FGt(df_position[Row], Flt(0))

\* a buy branch that accepts a position-change of +1 only
BuySignal_UnitOnly == df_position[Row] = Flt(1) /\ position = 0

\* df['position'].iloc[i] > 0 and position == 0
BuySignal == FGt(df_position[Row], Flt(0)) /\ position = 0

\* a sell branch that does not look at the current state
SellSignal_AnyState == FLt(df_position[Row], Flt(0))

\* df['position'].iloc[i] < 0 and position == 1
SellSignal == FLt(df_position[Row], Flt(0)) /\ position = 1

\* cash multiplied by the price instead of divided by it
SharesBought_Times(c, price) == FMul(c, price)

\* whole shares only: the quotient cut to an integer
SharesBought_Whole(c, price) == Flt(Trunc(FDiv(c, price)))

\* shares = cash / df['close'].iloc[i]
SharesBought(c, price) == Rnd(FDiv(c, price))

\* shares divided by the price instead of multiplied by it
CashRaised_Div(sh, price) == FDiv(sh, price)

\* the proceeds less a flat fee of 1
CashRaised_LessFee(sh, price) == FSub(FMul(sh, price), Flt(1))

\* cash = shares * df['close'].iloc[i]
CashRaised(sh, price) == Rnd(FMul(sh, price))

\* the holdings taken as the number of shares, not their value
MarkToMarket_NoPrice(c, sh, price) == FAdd(c, sh)

\* the value of the holdings alone, cash left out
MarkToMarket_NoCash(c, sh, price) == FMul(sh, price)

\* cash + shares * df['close'].iloc[i]
MarkToMarket(c, sh, price) == Rnd(FAdd(c, Rnd(FMul(sh, price))))

\* the three df.loc[...] assignments that close every iteration
Record(c, sh) ==
    /\ holdings' = [holdings EXCEPT ![Row] = Rnd(FMul(sh, close[Row]))]
    /\ df_cash' = [df_cash EXCEPT ![Row] = c]
    /\ portfolio_value' = [portfolio_value EXCEPT ![Row] = MarkToMarket(c, sh, close[Row])]
    /\ i' = i + 1

(* -------------------------- metrics calculator ------------------------- *)
\* the values of a series that are not NaN (pandas reductions skip NaN)
Valid(s) == SelectSeq(s, LAMBDA x : ~IsNaN(x))

FAbs(x) == <<Abs(x[1]), x[2]>>

RECURSIVE FMinSeq(_)
FMinSeq(s) ==
    IF Len(s) = 1 THEN s[1]
    ELSE LET h == Len(s) \div 2
             a == FMinSeq(SubSeq(s, 1, h))
             b == FMinSeq(SubSeq(s, h + 1, Len(s)))
         IN  IF FLt(b, a) THEN b ELSE a

RECURSIVE FMaxSeq(_)
FMaxSeq(s) ==
    IF Len(s) = 1 THEN s[1]
    ELSE LET h == Len(s) \div 2
             a == FMaxSeq(SubSeq(s, 1, h))
             b == FMaxSeq(SubSeq(s, h + 1, Len(s)))
         IN  IF FGt(b, a) THEN b ELSE a

\* series.min() / series.max(): NaN when no value is defined
SeriesMin(s) == IF Valid(s) = <<>> THEN NaN ELSE FMinSeq(Valid(s))

SeriesMax(s) == IF Valid(s) = <<>> THEN NaN ELSE FMaxSeq(Valid(s))

\* (final - initial) / initial * 100
PctReturn(final, initial) == FMul(FDiv(FSub(final, initial), initial), Flt(100))

\* series.pct_change(): NaN at the first row, then s[t] / s[t-1] - 1
PctChange(s) ==
    [t \in 1..Len(s) |-> IF t = 1 THEN NaN ELSE FSub(FDiv(s[t], s[t - 1]), Flt(1))]

\* series.mean(): over the defined values, NaN when there is none
Mean(s) ==
    IF Valid(s) = <<>> THEN NaN ELSE FDiv(FSum(Valid(s)), Flt(Len(Valid(s))))

\* series.std() squared (ddof = 1): NaN with fewer than two defined values
Variance(s) ==
    LET v == Valid(s)
        m == Mean(s)
    IN  IF Len(v) < 2 THEN NaN
        ELSE FDiv(FSum([k \in 1..Len(v) |-> FMul(FSub(v[k], m), FSub(v[k], m))]),
                  Flt(Len(v) - 1))

\* mean / std * sqrt(252) if std != 0 else 0, kept exact as sign(x) * x^2
\* (NaN != 0 is True, so an undefined std takes the first branch)
SharpeSq(r) ==
    LET m == Mean(r)
        v == Variance(r)
    IN  IF v = Flt(0) THEN Flt(0)
        ELSE FMul(FDiv(FMul(m, FAbs(m)), v), Flt(252))

\* portfolio_value.expanding().max()
ExpandingMax(s) == [t \in 1..Len(s) |-> SeriesMax(SubSeq(s, 1, t))]

\* ((pv - rolling_max) / rolling_max).min() * 100
MaxDrawdown(pv) ==
    LET rm == ExpandingMax(pv)
    IN  FMul(SeriesMin([t \in 1..Len(pv) |-> FDiv(FSub(pv[t], rm[t]), rm[t])]),
             Flt(100))

\* int(df['position'].abs().sum() / 2)
NumTrades(dp) ==
    Trunc(FDiv(FSum([t \in 1..Len(Valid(dp)) |-> FAbs(Valid(dp)[t])]), Flt(2)))

\* index of df[df['position'] != 0]: NaN != 0 is True, so undefined rows are kept
TradeRows(dp) ==
    SelectSeq([t \in 1..Len(dp) |-> t], LAMBDA t : IsNaN(dp[t]) \/ dp[t] # Flt(0))

\* the loop over range(0, len(trades), 2)
Wins(dp, c) ==
    LET tr == TradeRows(dp)
    IN  Cardinality({k \in 1..Len(tr) :
            /\ k % 2 = 1
            /\ k + 1 <= Len(tr)
            /\ FGt(c[tr[k + 1]], c[tr[k]])})

\* win_rate = wins / (num_trades / 2) * 100 when num_trades > 0, else 0
WinRate(dp, c) ==
    IF NumTrades(dp) > 0
    THEN FMul(FDiv(Flt(Wins(dp, c)), FDiv(Flt(NumTrades(dp)), Flt(2))), Flt(100))
    ELSE Flt(0)

CalcMetrics(pv, dp, c, capital) ==
    [total_return |-> Round2(PctReturn(Last(pv), Flt(capital))),
     buy_hold_return |-> Round2(PctReturn(Last(c), c[1])),
     sharpe_sq |-> SharpeSq(PctChange(pv)),
     max_drawdown |-> Round2(MaxDrawdown(pv)),
     num_trades |-> NumTrades(dp),
     win_rate |-> Round2(WinRate(dp, c))]

(* ------------------------------ DataFetcher ---------------------------- *)
MaxRetries == 3            \* largest max_retries argument

DefaultTimeout == 30       \* DataFetcher.__init__ default timeout
DefaultMaxRetries == 3     \* DataFetcher.__init__ default max_retries

Digit ==
    "0" :> 0 @@ "1" :> 1 @@ "2" :> 2 @@ "3" :> 3 @@ "4" :> 4 @@
    "5" :> 5 @@ "6" :> 6 @@ "7" :> 7 @@ "8" :> 8 @@ "9" :> 9

\* the strings int() accepts, among strings of digits and letters
IsIntLiteral(s) == s # <<>> /\ \A k \in 1..Len(s) : s[k] \in DOMAIN Digit

RECURSIVE IntValue(_)
IntValue(s) ==
    IF s = <<>> THEN 0
    ELSE 10 * IntValue(SubSeq(s, 1, Len(s) - 1)) + Digit[Last(s)]

\* int(os.environ.get(name, default)): the default when the variable is unset,
\* the number the string spells, or a ValueError
EnvInt(name, default) ==
    IF ~environ[name].set THEN [ok |-> TRUE, value |-> default]
    ELSE IF IsIntLiteral(environ[name].value)
         THEN [ok |-> TRUE, value |-> IntValue(environ[name].value)]
    ELSE [ok |-> FALSE, value |-> 0]

\* the words of the modelled exception messages and column names, with lower()
LowerCase ==
    "Connection" :> "connection" @@ "reset" :> "reset" @@
    "Failed" :> "failed" @@ "to" :> "to" @@ "resolve" :> "resolve" @@
    "Invalid" :> "invalid" @@ "column" :> "column" @@ "Close" :> "close"

NetworkKeywords ==
    {"connection", "timeout", "network", "resolve", "unreachable", "dns"}

\* any(keyword in str(e).lower() for keyword in [...])
IsNetworkError(e) ==
    \E k \in 1..Len(e.message) : LowerCase[e.message[k]] \in NetworkKeywords

\* what one ticker.history() call can do
DataOutcome(c) ==
    [kind |-> "data", value_error |-> FALSE, message |-> <<>>,
     columns |-> <<"Close">>, close |-> c]

EmptyOutcome ==
    [kind |-> "empty", value_error |-> FALSE, message |-> <<>>,
     columns |-> <<>>, close |-> <<>>]

RaiseOutcome(ve, msg) ==
    [kind |-> "raise", value_error |-> ve, message |-> msg,
     columns |-> <<>>, close |-> <<>>]

NoOutcome ==
    [kind |-> "none", value_error |-> FALSE, message |-> <<>>,
     columns |-> <<>>, close |-> <<>>]

Messages ==
    {<<"Failed", "to", "resolve">>, <<"Connection", "reset">>, <<"Invalid", "column">>}

FetchedCloses == {<<1>>, <<1, 2>>}

Methods == {"fetch_data", "get_latest_price"}

\* an exception the `except Exception` branch classifies as a network error
Retryable(o) == o.kind = "raise" /\ ~o.value_error /\ IsNetworkError(o)

\* a schedule that starts at one second: 1, 2, 4, ...
Backoff_FromOne(attempt) == 2 ^ attempt

\* wait_time = 2 ** (attempt + 1)
Backoff(attempt) == 2 ^ (attempt + 1)

\* data.columns = [col.lower() for col in data.columns]
Renamed(o) ==
    [columns |-> [k \in 1..Len(o.columns) |-> LowerCase[o.columns[k]]],
     close |-> o.close]

NoFrame == [columns |-> <<>>, close |-> <<>>]

\* the frame of a call: where it is, the loop variable, last_error, and how it
\* ended (the exception raised, the frame or the price returned)
Frame(p, m) ==
    [pc |-> p, method |-> m, attempt |-> 0, last_error |-> NoOutcome,
     raised |-> "", data |-> NoFrame, latest_price |-> 0]

\* a loop with one iteration more than max_retries
HasAttempt_OneMore == fetch.pc = "loop" /\ fetch.attempt <= fetcher.max_retries

\* for attempt in range(self.max_retries): an iteration is left
HasAttempt == fetch.pc = "loop" /\ fetch.attempt < fetcher.max_retries

\* DataFetcher.__init__ when both int() conversions succeed
Construct ==
    LET t == EnvInt("YFINANCE_TIMEOUT", fetcher_args.timeout)
        r == EnvInt("YFINANCE_MAX_RETRIES", fetcher_args.max_retries)
    IN  /\ fetch.pc = "new"
        /\ t.ok /\ r.ok
        /\ fetcher' = [timeout |-> t.value, max_retries |-> r.value]
        /\ fetch' = Frame("ready", "")
        /\ UNCHANGED <<engine_vars, offline_vars, environ, fetcher_args, history_calls, sleeps>>

\* DataFetcher.__init__ when int() raises ValueError on an environment value
ConstructFails ==
    LET t == EnvInt("YFINANCE_TIMEOUT", fetcher_args.timeout)
        r == EnvInt("YFINANCE_MAX_RETRIES", fetcher_args.max_retries)
    IN  /\ fetch.pc = "new"
        /\ ~(t.ok /\ r.ok)
        /\ fetch' = [Frame("init_raised", "") EXCEPT !.raised = "ValueError"]
        /\ UNCHANGED <<engine_vars, offline_vars, environ, fetcher_args, fetcher, history_calls, sleeps>>

\* fetch_data / get_latest_price up to the loop: last_error = None
Call ==
    /\ fetch.pc = "ready"
    /\ \E m \in Methods : fetch' = Frame("loop", m)
    /\ UNCHANGED <<engine_vars, offline_vars, environ, fetcher_args, fetcher, history_calls, sleeps>>

\* rows that do not end the loop: the next iteration fetches again
AttemptReturnsData_KeepsTrying ==
    /\ HasAttempt
    /\ \E c \in FetchedCloses :
        history_calls' = Append(history_calls, DataOutcome(c))
    /\ fetch' = [fetch EXCEPT !.attempt = @ + 1]
    /\ UNCHANGED <<engine_vars, offline_vars, environ, fetcher_args, fetcher, sleeps>>

\* an attempt whose history() returns rows: the method returns
AttemptReturnsData ==
    /\ HasAttempt
    /\ \E c \in FetchedCloses :
        /\ history_calls' = Append(history_calls, DataOutcome(c))
        /\ fetch' = IF fetch.method = "fetch_data"
                    THEN [fetch EXCEPT !.pc = "returned", !.data = Renamed(DataOutcome(c))]
                    ELSE [fetch EXCEPT !.pc = "returned", !.latest_price = Last(c)]
    /\ UNCHANGED <<engine_vars, offline_vars, environ, fetcher_args, fetcher, sleeps>>

\* an empty result handled like a network error: sleep, then continue
AttemptReturnsEmpty_Retried ==
    /\ HasAttempt
    /\ history_calls' = Append(history_calls, EmptyOutcome)
    /\ fetch' = [fetch EXCEPT !.attempt = @ + 1, !.last_error = EmptyOutcome]
    /\ sleeps' = Append(sleeps, Backoff(fetch.attempt))
    /\ UNCHANGED <<engine_vars, offline_vars, environ, fetcher_args, fetcher>>

\* an attempt whose history() returns no rows: ValueError, re-raised at once
AttemptReturnsEmpty ==
    /\ HasAttempt
    /\ history_calls' = Append(history_calls, EmptyOutcome)
    /\ fetch' = [fetch EXCEPT !.pc = "raised", !.raised = "ValueError"]
    /\ UNCHANGED <<engine_vars, offline_vars, environ, fetcher_args, fetcher, sleeps>>

\* an attempt whose history() raises a ValueError: re-raised at once
AttemptRaisesValueError ==
    /\ HasAttempt
    /\ \E msg \in Messages :
        history_calls' = Append(history_calls, RaiseOutcome(TRUE, msg))
    /\ fetch' = [fetch EXCEPT !.pc = "raised", !.raised = "ValueError"]
    /\ UNCHANGED <<engine_vars, offline_vars, environ, fetcher_args, fetcher, sleeps>>

\* a network error before the last attempt: sleep, then continue
RetryAfterNetworkError ==
    /\ HasAttempt
    /\ fetch.attempt < fetcher.max_retries - 1
    /\ \E msg \in Messages :
        /\ IsNetworkError(RaiseOutcome(FALSE, msg))
        /\ history_calls' = Append(history_calls, RaiseOutcome(FALSE, msg))
        /\ fetch' = [fetch EXCEPT !.attempt = @ + 1,
                                  !.last_error = RaiseOutcome(FALSE, msg)]
    /\ sleeps' = Append(sleeps, Backoff(fetch.attempt))
    /\ UNCHANGED <<engine_vars, offline_vars, environ, fetcher_args, fetcher>>

\* a network error on the last attempt: no sleep, the loop ends
LastNetworkError ==
    /\ HasAttempt
    /\ ~(fetch.attempt < fetcher.max_retries - 1)
    /\ \E msg \in Messages :
        /\ IsNetworkError(RaiseOutcome(FALSE, msg))
        /\ history_calls' = Append(history_calls, RaiseOutcome(FALSE, msg))
        /\ fetch' = [fetch EXCEPT !.attempt = @ + 1,
                                  !.last_error = RaiseOutcome(FALSE, msg)]
    /\ UNCHANGED <<engine_vars, offline_vars, environ, fetcher_args, fetcher, sleeps>>

\* any other exception handled like a network error: sleep, then continue
AttemptRaisesOtherError_Retried ==
    /\ HasAttempt
    /\ \E msg \in Messages :
        /\ ~IsNetworkError(RaiseOutcome(FALSE, msg))
        /\ history_calls' = Append(history_calls, RaiseOutcome(FALSE, msg))
        /\ fetch' = [fetch EXCEPT !.attempt = @ + 1,
                                  !.last_error = RaiseOutcome(FALSE, msg)]
    /\ sleeps' = Append(sleeps, Backoff(fetch.attempt))
    /\ UNCHANGED <<engine_vars, offline_vars, environ, fetcher_args, fetcher>>

\* any other exception: wrapped in Exception("Error fetching ...") and raised
AttemptRaisesOtherError ==
    /\ HasAttempt
    /\ \E msg \in Messages :
        /\ ~IsNetworkError(RaiseOutcome(FALSE, msg))
        /\ history_calls' = Append(history_calls, RaiseOutcome(FALSE, msg))
        /\ fetch' = [fetch EXCEPT !.pc = "raised", !.raised = "Error fetching",
                                  !.last_error = RaiseOutcome(FALSE, msg)]
    /\ UNCHANGED <<engine_vars, offline_vars, environ, fetcher_args, fetcher, sleeps>>

\* the loop is over: Exception("Failed to fetch ... after max_retries attempts")
RetriesExhausted ==
    /\ fetch.pc = "loop"
    /\ ~HasAttempt
    /\ fetch' = [fetch EXCEPT !.pc = "raised", !.raised = "Failed to fetch"]
    /\ UNCHANGED <<engine_vars, offline_vars, environ, fetcher_args, fetcher, history_calls, sleeps>>

Unset == [set |-> FALSE, value |-> <<>>]

\* the values an environment variable is given: unset, "", "2", "x", "2x"
EnvValues ==
    {Unset} \cup {[set |-> TRUE, value |-> v] : v \in {<<>>, <<"2">>, <<"x">>, <<"2", "x">>}}

\* the fetcher of an engine that has been built: DataFetcher() with no
\* environment override, no call in progress
FetcherReady ==
    /\ environ = [YFINANCE_TIMEOUT |-> Unset, YFINANCE_MAX_RETRIES |-> Unset]
    /\ fetcher_args = [timeout |-> DefaultTimeout, max_retries |-> DefaultMaxRetries]
    /\ fetcher = [timeout |-> DefaultTimeout, max_retries |-> DefaultMaxRetries]
    /\ fetch = Frame("ready", "")
    /\ history_calls = <<>>
    /\ sleeps = <<>>

(* ------------------------------ actions -------------------------------- *)
Closes == UNION {[1..n -> 1..MaxClose] : n \in 1..MaxBars}

Oversold == 30      \* RSIStrategy default oversold threshold
Overbought == 70    \* RSIStrategy default overbought threshold

Strategies ==
    [kind : {"SMA", "EMA"}, short_window : 1..MaxWindow, long_window : 1..MaxWindow]
        \cup [kind : {"RSI"}, window : 1..MaxWindow,
              oversold : {Oversold}, overbought : {Overbought}]

\* rolling(window=w) raises ValueError for w < 0, ewm(span=n) for n < 1
WindowsAccepted(st) ==
    IF st.kind = "SMA" THEN st.short_window >= 0 /\ st.long_window >= 0
    ELSE IF st.kind = "EMA" THEN st.short_window >= 1 /\ st.long_window >= 1
    ELSE st.window >= 0

\* the dictionary run returns: final_capital, data (the frame) and metrics
ResultDict ==
    [strategy |-> strategy,
     close |-> close,
     final_capital |-> Last(portfolio_value),
     signal |-> signal,
     position |-> df_position,
     holdings |-> holdings,
     cash |-> df_cash,
     portfolio_value |-> portfolio_value,
     metrics |-> metrics]

NoMetrics ==
    [total_return |-> NaN, buy_hold_return |-> NaN, sharpe_sq |-> NaN,
     max_drawdown |-> NaN, num_trades |-> 0, win_rate |-> NaN]

\* os.path.exists(parquet_file) is False
NoFile == [exists |-> FALSE, intact |-> TRUE, columns |-> <<>>, close |-> <<>>]

\* the file data.to_parquet(parquet_file) writes
File(df) == [exists |-> TRUE, intact |-> TRUE, columns |-> df.columns, close |-> df.close]

\* no download_and_save_data or BacktestEngine(...) call is in progress
NoCall ==
    [op |-> "none", pc |-> "idle", force |-> FALSE, kwargs |-> {},
     returned |-> "none", raised |-> ""]

\* the columns of the frame fetch_data returned to BacktestEngine.__init__
PriceColumns == Renamed(DataOutcome(<<>>)).columns

\* everything but the inputs, as it is when run(strategy) is about to start
Fresh ==
    /\ pc = "run"
    /\ data_columns = PriceColumns
    /\ parquet_file = NoFile
    /\ offline = NoCall
    /\ signal = <<>>
    /\ df_position = <<>>
    /\ i = 0
    /\ position = 0
    /\ shares = Flt(0)
    /\ cash = Flt(0)
    /\ holdings = <<>>
    /\ df_cash = <<>>
    /\ portfolio_value = <<>>
    /\ metrics = NoMetrics
    /\ result = "none"
    /\ executed = <<>>
    /\ returned = <<>>
    /\ FetcherReady

\* BacktestEngine.__init__ has run and run(strategy) is about to start
Init ==
    /\ \E c \in Closes : close = [t \in 1..Len(c) |-> Flt(c[t])]
    /\ strategy \in Strategies
    /\ initial_capital \in 0..MaxCapital
    /\ mantissa = 0
    /\ Fresh

\* generate_signals working on the frame it is given, without data.copy()
GenerateSignals_InPlace ==
    /\ pc = "run"
    /\ WindowsAccepted(strategy)
    /\ signal' = StrategySignal(close, strategy)
    /\ df_position' = Diff(signal')
    /\ data_columns' = data_columns \o <<"signal", "position">>
    /\ pc' = "setup"
    /\ UNCHANGED <<fetcher_vars, offline_vars, mantissa, close, strategy, initial_capital, i,
                   position, shares, cash, holdings, df_cash, portfolio_value, metrics,
                   result, executed, returned>>

\* df = strategy.generate_signals(self.data)
GenerateSignals ==
    /\ pc = "run"
    /\ WindowsAccepted(strategy)
    /\ signal' = StrategySignal(close, strategy)
    /\ df_position' = Diff(signal')
    /\ pc' = "setup"
    /\ UNCHANGED <<fetcher_vars, offline_vars, mantissa, data_columns, close, strategy,
                   initial_capital, i, position, shares, cash,
                   holdings, df_cash, portfolio_value, metrics, result,
                   executed, returned>>

\* generate_signals raises ValueError out of rolling() / ewm(); run propagates it
GenerateSignalsFails ==
    /\ pc = "run"
    /\ ~WindowsAccepted(strategy)
    /\ pc' = "failed"
    /\ result' = "raised"
    /\ UNCHANGED <<fetcher_vars, offline_vars, mantissa, data_columns, close, strategy,
                   initial_capital, signal, df_position, i, position,
                   shares, cash, holdings, df_cash, portfolio_value, metrics,
                   executed, returned>>

\* a setup that keeps position, shares and cash from the previous call
PortfolioSetup_KeepState ==
    /\ pc = "setup"
    /\ holdings' = [t \in 1..Len(close) |-> Flt(0)]
    /\ df_cash' = [t \in 1..Len(close) |-> Flt(initial_capital)]
    /\ portfolio_value' = [t \in 1..Len(close) |-> Flt(initial_capital)]
    /\ cash' = IF returned = <<>> THEN Flt(initial_capital) ELSE cash
    /\ i' = 0
    /\ pc' = "loop"
    /\ executed' = <<>>
    /\ UNCHANGED <<fetcher_vars, offline_vars, mantissa, data_columns, close, strategy,
                   initial_capital, signal, df_position, metrics,
                   result, returned, position, shares>>

\* _calculate_portfolio up to the loop: the three columns and the locals
PortfolioSetup ==
    /\ pc = "setup"
    /\ holdings' = [t \in 1..Len(close) |-> Flt(0)]
    /\ df_cash' = [t \in 1..Len(close) |-> Flt(initial_capital)]
    /\ portfolio_value' = [t \in 1..Len(close) |-> Flt(initial_capital)]
    /\ position' = 0
    /\ shares' = Flt(0)
    /\ cash' = Flt(initial_capital)
    /\ i' = 0
    /\ pc' = "loop"
    /\ executed' = <<>>
    /\ UNCHANGED <<fetcher_vars, offline_vars, mantissa, data_columns, close, strategy,
                   initial_capital, signal, df_position, metrics,
                   result, returned>>

\* iteration with an undefined position-change: record and continue
CarryForward ==
    /\ InLoop
    /\ Undefined
    /\ Record(cash, shares)
    /\ UNCHANGED <<fetcher_vars, offline_vars, mantissa, data_columns, close, strategy,
                   initial_capital, pc, signal, df_position,
                   position, shares, cash, metrics, result, executed, returned>>

\* iteration taking the buy branch
EnterLong ==
    /\ InLoop
    /\ ~Undefined
    /\ BuySignal
    /\ shares' = SharesBought(cash, close[Row])
    /\ cash' = Flt(0)
    /\ position' = 1
    /\ Record(cash', shares')
    /\ executed' = Append(executed, [row |-> Row, kind |-> "enter"])
    /\ UNCHANGED <<fetcher_vars, offline_vars, mantissa, data_columns, close, strategy,
                   initial_capital, pc, signal, df_position,
                   metrics, result, returned>>

\* a sell branch that forgets to reset the position flag
ExitLong_StaysLong ==
    /\ InLoop
    /\ ~Undefined
    /\ ~BuySignal
    /\ SellSignal
    /\ cash' = CashRaised(shares, close[Row])
    /\ shares' = Flt(0)
    /\ position' = 1
    /\ Record(cash', shares')
    /\ executed' = Append(executed, [row |-> Row, kind |-> "exit"])
    /\ UNCHANGED <<fetcher_vars, offline_vars, mantissa, data_columns, close, strategy,
                   initial_capital, pc, signal, df_position,
                   metrics, result, returned>>

\* iteration taking the sell branch
ExitLong ==
    /\ InLoop
    /\ ~Undefined
    /\ ~BuySignal
    /\ SellSignal
    /\ cash' = CashRaised(shares, close[Row])
    /\ shares' = Flt(0)
    /\ position' = 0
    /\ Record(cash', shares')
    /\ executed' = Append(executed, [row |-> Row, kind |-> "exit"])
    /\ UNCHANGED <<fetcher_vars, offline_vars, mantissa, data_columns, close, strategy,
                   initial_capital, pc, signal, df_position,
                   metrics, result, returned>>

\* iteration taking neither branch
Hold ==
    /\ InLoop
    /\ ~Undefined
    /\ ~BuySignal
    /\ ~SellSignal
    /\ Record(cash, shares)
    /\ UNCHANGED <<fetcher_vars, offline_vars, mantissa, data_columns, close, strategy,
                   initial_capital, pc, signal, df_position,
                   position, shares, cash, metrics, result, executed, returned>>

\* the loop is over: metrics = self._calculate_metrics(df)
CalculateMetrics ==
    /\ pc = "loop"
    /\ ~InLoop
    /\ metrics' = CalcMetrics(portfolio_value, df_position, close, initial_capital)
    /\ pc' = "return"
    /\ UNCHANGED <<fetcher_vars, offline_vars, mantissa, data_columns, close, strategy,
                   initial_capital, signal, df_position, i, position,
                   shares, cash, holdings, df_cash, portfolio_value, result,
                   executed, returned>>

\* run returns the result dictionary
Return ==
    /\ pc = "return"
    /\ result' = "returned"
    /\ returned' = Append(returned, ResultDict)
    /\ pc' = "done"
    /\ UNCHANGED <<fetcher_vars, offline_vars, mantissa, data_columns, close, strategy,
                   initial_capital, signal, df_position, i, position,
                   shares, cash, holdings, df_cash, portfolio_value, metrics, executed>>

\* the caller calls run(strategy) a second time on the same engine
RunAgain ==
    /\ pc = "done"
    /\ Len(returned) = 1
    /\ pc' = "run"
    /\ result' = "none"
    /\ UNCHANGED <<fetcher_vars, offline_vars, mantissa, data_columns, close, strategy,
                   initial_capital, signal, df_position, i, position,
                   shares, cash, holdings, df_cash, portfolio_value, metrics,
                   executed, returned>>

Next ==
    \/ GenerateSignals
    \/ PortfolioSetup
    \/ CarryForward
    \/ EnterLong
    \/ ExitLong
    \/ Hold
    \/ CalculateMetrics
    \/ Return

Spec == Init /\ [][Next]_vars

(* ---- unvalidated inputs: whatever __init__ and the strategies accept ---- *)
RawCloses == UNION {[1..n -> 0..MaxClose] : n \in 1..MaxBars}

RawWindows == {-1} \cup (1..MaxWindow)

\* the RSI thresholds in their default order and swapped
RawStrategies ==
    [kind : {"SMA", "EMA"}, short_window : RawWindows, long_window : RawWindows]
        \cup [kind : {"RSI"}, window : RawWindows,
              oversold : {Oversold}, overbought : {Overbought}]
        \cup [kind : {"RSI"}, window : RawWindows,
              oversold : {Overbought}, overbought : {Oversold}]

\* no constructor checks its arguments, so any of these reaches run
InitRaw ==
    /\ \E c \in RawCloses : close = [t \in 1..Len(c) |-> Flt(c[t])]
    /\ strategy \in RawStrategies
    /\ initial_capital \in {-1, 0, MaxCapital}
    /\ mantissa = 0
    /\ Fresh

NextRaw == Next \/ GenerateSignalsFails

SpecRaw == InitRaw /\ [][NextRaw]_vars

(* ---- the default configuration on hand-made series ---------------------- *)
DefaultCapital == 10000   \* BacktestEngine(initial_capital=10000)
DefaultShort == 20        \* SMAStrategy(short_window=20)
DefaultLong == 50         \* SMAStrategy(long_window=50)
DefaultWindow == 14       \* RSIStrategy(window=14)

\* a flat series of 60 bars at 100, and every short series over {100, 110}
ScenarioCloses ==
    {[t \in 1..60 |-> 100]} \cup UNION {[1..n -> {100, 110}] : n \in 1..MaxBars}

ScenarioStrategies ==
    [kind : {"SMA"}, short_window : (1..MaxWindow) \cup {DefaultShort},
                     long_window : (1..MaxWindow) \cup {DefaultLong}]
        \cup [kind : {"RSI"}, window : (1..MaxWindow) \cup {DefaultWindow},
              oversold : {Oversold}, overbought : {Overbought}]

InitScenario ==
    /\ \E c \in ScenarioCloses : close = [t \in 1..Len(c) |-> Flt(c[t])]
    /\ strategy \in ScenarioStrategies
    /\ initial_capital = DefaultCapital
    /\ mantissa = 0
    /\ Fresh

SpecScenario == InitScenario /\ [][Next]_vars

(* ---- the engine in rounded arithmetic ----------------------------------- *)
FloatBits == 6    \* significand width of the modelled format (binary64 has 53)

FloatBars == 3    \* longest series run in rounded arithmetic

\* prices whose reciprocal has no finite binary expansion, next to 1
FloatCloses == UNION {[1..n -> {1, 13}] : n \in 1..FloatBars}

\* every result of +, -, *, / is rounded to FloatBits significant bits
InitFloat ==
    /\ \E c \in FloatCloses : close = [t \in 1..Len(c) |-> Flt(c[t])]
    /\ strategy \in Strategies
    /\ initial_capital \in 1..MaxCapital
    /\ mantissa = FloatBits
    /\ Fresh

SpecFloat == InitFloat /\ [][Next]_vars

(* ---- the simulator against the loop of test_backtesting_logic ----------- *)
RefBars == 3      \* longest series the two loops are compared on

\* cash and shares of the reference loop after its first t iterations
RECURSIVE RefState(_, _, _, _)
RefState(dp, c, capital, t) ==
    IF t = 0 THEN [cash |-> Flt(capital), shares |-> Flt(0)]
    ELSE LET s == RefState(dp, c, capital, t - 1)
         IN  IF IsNaN(dp[t]) THEN s
             ELSE IF FGt(dp[t], Flt(0)) /\ s.shares = Flt(0)
                  THEN [cash |-> Flt(0), shares |-> Rnd(FDiv(s.cash, c[t]))]
             ELSE IF FLt(dp[t], Flt(0)) /\ FGt(s.shares, Flt(0))
                  THEN [cash |-> Rnd(FMul(s.shares, c[t])), shares |-> Flt(0)]
             ELSE s

\* portfolio_values of the reference loop
RefPortfolio(dp, c, capital) ==
    [t \in 1..Len(c) |->
        LET s == RefState(dp, c, capital, t)
        IN  Rnd(FAdd(s.cash, Rnd(FMul(s.shares, c[t]))))]

\* the values a position-change is drawn from: undefined, sell, none, buy
PositionChanges == {NaN, Flt(-1), Flt(0), Flt(1)}

\* _calculate_portfolio on any frame: the position column is not the output
\* of a strategy, the capital is whatever the constructor was given
InitRef ==
    /\ \E n \in 1..RefBars :
          /\ \E c \in [1..n -> 1..MaxClose] : close = [t \in 1..n |-> Flt(c[t])]
          /\ df_position \in [1..n -> PositionChanges]
    /\ signal = <<>>
    /\ strategy = [kind |-> "SMA", short_window |-> DefaultShort, long_window |-> DefaultLong]
    /\ initial_capital \in {-1} \cup (0..MaxCapital)
    /\ mantissa = 0
    /\ pc = "setup"
    /\ data_columns = PriceColumns
    /\ parquet_file = NoFile
    /\ offline = NoCall
    /\ i = 0
    /\ position = 0
    /\ shares = Flt(0)
    /\ cash = Flt(0)
    /\ holdings = <<>>
    /\ df_cash = <<>>
    /\ portfolio_value = <<>>
    /\ metrics = NoMetrics
    /\ result = "none"
    /\ executed = <<>>
    /\ returned = <<>>
    /\ FetcherReady

NextRef ==
    \/ PortfolioSetup
    \/ CarryForward
    \/ EnterLong
    \/ ExitLong
    \/ Hold
    \/ CalculateMetrics
    \/ Return

SpecRef == InitRef /\ [][NextRef]_vars

(* ---- two calls of run on one engine ------------------------------------- *)
NextTwice == Next \/ RunAgain

SpecTwice == Init /\ [][NextTwice]_vars

(* ---- the same strategy on a shorter history ------------------------------ *)
\* an engine over the first n bars of the same history runs the same strategy
RunOnPrefix ==
    /\ pc = "done"
    /\ Len(returned) = 1
    /\ \E n \in 1..(Len(close) - 1) : close' = SubSeq(close, 1, n)
    /\ pc' = "run"
    /\ result' = "none"
    /\ UNCHANGED <<fetcher_vars, offline_vars, mantissa, data_columns, strategy,
                   initial_capital, signal, df_position, i, position, shares, cash,
                   holdings, df_cash, portfolio_value, metrics, executed, returned>>

InitPrefix == Init /\ initial_capital = MaxCapital

NextPrefix == Next \/ RunOnPrefix

SpecPrefix == InitPrefix /\ [][NextPrefix]_vars

(* ---- several strategies on one engine ----------------------------------- *)
\* one strategy of each kind for the run in the middle
OtherStrategies ==
    {[kind |-> "SMA", short_window |-> 1, long_window |-> 2],
     [kind |-> "EMA", short_window |-> 2, long_window |-> 1],
     [kind |-> "RSI", window |-> 1, oversold |-> Oversold, overbought |-> Overbought]}

\* the caller runs another strategy on the same engine
RunOther ==
    /\ pc = "done"
    /\ Len(returned) = 1
    /\ strategy' \in OtherStrategies
    /\ pc' = "run"
    /\ result' = "none"
    /\ UNCHANGED <<fetcher_vars, offline_vars, mantissa, data_columns, close,
                   initial_capital, signal, df_position, i, position, shares, cash,
                   holdings, df_cash, portfolio_value, metrics, executed, returned>>

\* the caller then runs the first strategy once more
RunFirstAgain ==
    /\ pc = "done"
    /\ Len(returned) = 2
    /\ strategy' = returned[1].strategy
    /\ pc' = "run"
    /\ result' = "none"
    /\ UNCHANGED <<fetcher_vars, offline_vars, mantissa, data_columns, close,
                   initial_capital, signal, df_position, i, position, shares, cash,
                   holdings, df_cash, portfolio_value, metrics, executed, returned>>

InitSeveral == Init /\ initial_capital = MaxCapital

NextSeveral == Next \/ RunOther \/ RunFirstAgain

SpecSeveral == InitSeveral /\ [][NextSeveral]_vars

\* a DataFetcher on its own: it is constructed under some environment, then
\* one of its two methods is called once; no engine is built
InitFetch ==
    /\ environ \in [YFINANCE_TIMEOUT : EnvValues, YFINANCE_MAX_RETRIES : EnvValues]
    /\ fetcher_args \in [timeout : {DefaultTimeout}, max_retries : 0..MaxRetries]
    /\ fetcher = [timeout |-> 0, max_retries |-> 0]
    /\ fetch = Frame("new", "")
    /\ history_calls = <<>>
    /\ sleeps = <<>>
    /\ parquet_file = NoFile
    /\ offline = NoCall
    /\ mantissa = 0
    /\ data_columns = <<>>
    /\ close = <<>>
    /\ strategy = [kind |-> "SMA", short_window |-> DefaultShort, long_window |-> DefaultLong]
    /\ initial_capital = DefaultCapital
    /\ pc = "run"
    /\ signal = <<>>
    /\ df_position = <<>>
    /\ i = 0
    /\ position = 0
    /\ shares = Flt(0)
    /\ cash = Flt(0)
    /\ holdings = <<>>
    /\ df_cash = <<>>
    /\ portfolio_value = <<>>
    /\ metrics = NoMetrics
    /\ result = "none"
    /\ executed = <<>>
    /\ returned = <<>>

NextFetch ==
    \/ Construct
    \/ ConstructFails
    \/ Call
    \/ AttemptReturnsData
    \/ AttemptReturnsEmpty
    \/ AttemptRaisesValueError
    \/ RetryAfterNetworkError
    \/ LastNetworkError
    \/ AttemptRaisesOtherError
    \/ RetriesExhausted

SpecFetch == InitFetch /\ [][NextFetch]_vars

(* ---- the price cache: download_data.py and BacktestEngine(...) ---------- *)
\* the frame a cache file written earlier holds
CachedFile == File(Renamed(DataOutcome(<<2, 1>>)))

\* what to_parquet leaves behind when it fails half way
Damaged == [exists |-> TRUE, intact |-> FALSE, columns |-> <<>>, close |-> <<>>]

\* download_and_save_data(symbol, start_date, end_date, data_dir, force)
DownloadCalls ==
    {[op |-> "download", pc |-> "called", force |-> f, kwargs |-> {},
      returned |-> "none", raised |-> ""] : f \in BOOLEAN}

\* BacktestEngine(symbol, start_date, end_date, initial_capital, **kwargs)
EngineCalls ==
    {[op |-> "engine", pc |-> "called", force |-> FALSE, kwargs |-> k,
      returned |-> "none", raised |-> ""] : k \in {{}, {"use_cache", "data_dir"}}}

\* the keyword parameters of BacktestEngine.__init__
InitParameters == {"symbol", "start_date", "end_date", "initial_capital"}

\* if os.path.exists(parquet_file) and not force: return True
DownloadCached ==
    /\ offline.op = "download" /\ offline.pc = "called"
    /\ parquet_file.exists /\ ~offline.force
    /\ offline' = [offline EXCEPT !.pc = "returned", !.returned = "True"]
    /\ UNCHANGED <<engine_vars, fetcher_vars, parquet_file>>

\* otherwise the try block is entered: fetcher = DataFetcher()
DownloadTry ==
    /\ offline.op = "download" /\ offline.pc = "called"
    /\ ~(parquet_file.exists /\ ~offline.force)
    /\ offline' = [offline EXCEPT !.pc = "fetching"]
    /\ fetch' = Frame("new", "")
    /\ UNCHANGED <<engine_vars, environ, fetcher_args, fetcher, history_calls, sleeps,
                   parquet_file>>

\* fetcher.fetch_data(symbol, start_date, end_date), in both callers
FetchPrices ==
    /\ offline.pc = "fetching"
    /\ fetch.pc = "ready"
    /\ fetch' = Frame("loop", "fetch_data")
    /\ UNCHANGED <<engine_vars, offline_vars, environ, fetcher_args, fetcher, history_calls,
                   sleeps>>

\* data.to_parquet(parquet_file, ...) and return True
DownloadSave ==
    /\ offline.op = "download" /\ offline.pc = "fetching"
    /\ fetch.pc = "returned"
    /\ parquet_file' = File(fetch.data)
    /\ offline' = [offline EXCEPT !.pc = "returned", !.returned = "True"]
    /\ UNCHANGED <<engine_vars, fetcher_vars>>

\* to_parquet raises (no pyarrow, no space): caught, return False
DownloadSaveFails ==
    /\ offline.op = "download" /\ offline.pc = "fetching"
    /\ fetch.pc = "returned"
    /\ parquet_file' \in {parquet_file, Damaged}
    /\ offline' = [offline EXCEPT !.pc = "returned", !.returned = "False"]
    /\ UNCHANGED <<engine_vars, fetcher_vars>>

\* DataFetcher() or fetch_data raised: except Exception, return False
DownloadFails ==
    /\ offline.op = "download" /\ offline.pc = "fetching"
    /\ fetch.pc \in {"raised", "init_raised"}
    /\ offline' = [offline EXCEPT !.pc = "returned", !.returned = "False"]
    /\ UNCHANGED <<engine_vars, fetcher_vars, parquet_file>>

\* a keyword __init__ does not declare: TypeError before its body runs
EngineInitRejected ==
    /\ offline.op = "engine" /\ offline.pc = "called"
    /\ ~(offline.kwargs \subseteq InitParameters)
    /\ offline' = [offline EXCEPT !.pc = "raised", !.raised = "TypeError"]
    /\ UNCHANGED <<engine_vars, fetcher_vars, parquet_file>>

\* the body of __init__ starts: fetcher = DataFetcher()
EngineInit ==
    /\ offline.op = "engine" /\ offline.pc = "called"
    /\ offline.kwargs \subseteq InitParameters
    /\ offline' = [offline EXCEPT !.pc = "fetching"]
    /\ fetch' = Frame("new", "")
    /\ UNCHANGED <<engine_vars, environ, fetcher_args, fetcher, history_calls, sleeps,
                   parquet_file>>

\* self.data = fetcher.fetch_data(symbol, start_date, end_date)
EngineBuilt ==
    /\ offline.op = "engine" /\ offline.pc = "fetching"
    /\ fetch.pc = "returned"
    /\ close' = [t \in 1..Len(fetch.data.close) |-> Flt(fetch.data.close[t])]
    /\ data_columns' = fetch.data.columns
    /\ offline' = [offline EXCEPT !.pc = "built"]
    /\ UNCHANGED <<fetcher_vars, parquet_file, mantissa, strategy, initial_capital, pc,
                   signal, df_position, i, position, shares, cash, holdings, df_cash,
                   portfolio_value, metrics, result, executed, returned>>

\* the exception of DataFetcher() or fetch_data leaves __init__
EngineInitFails ==
    /\ offline.op = "engine" /\ offline.pc = "fetching"
    /\ fetch.pc \in {"raised", "init_raised"}
    /\ offline' = [offline EXCEPT !.pc = "raised", !.raised = fetch.raised]
    /\ UNCHANGED <<engine_vars, fetcher_vars, parquet_file>>

\* one call of download_and_save_data or of BacktestEngine(...), with or
\* without a cache file, under some environment
InitOffline ==
    /\ environ \in [YFINANCE_TIMEOUT : EnvValues, YFINANCE_MAX_RETRIES : EnvValues]
    /\ fetcher_args = [timeout |-> DefaultTimeout, max_retries |-> DefaultMaxRetries]
    /\ fetcher = [timeout |-> 0, max_retries |-> 0]
    /\ fetch = Frame("idle", "")
    /\ history_calls = <<>>
    /\ sleeps = <<>>
    /\ parquet_file \in {NoFile, CachedFile}
    /\ offline \in DownloadCalls \cup EngineCalls
    /\ mantissa = 0
    /\ data_columns = <<>>
    /\ close = <<>>
    /\ strategy = [kind |-> "SMA", short_window |-> DefaultShort, long_window |-> DefaultLong]
    /\ initial_capital = DefaultCapital
    /\ pc = "run"
    /\ signal = <<>>
    /\ df_position = <<>>
    /\ i = 0
    /\ position = 0
    /\ shares = Flt(0)
    /\ cash = Flt(0)
    /\ holdings = <<>>
    /\ df_cash = <<>>
    /\ portfolio_value = <<>>
    /\ metrics = NoMetrics
    /\ result = "none"
    /\ executed = <<>>
    /\ returned = <<>>

NextOffline ==
    \/ DownloadCached
    \/ DownloadTry
    \/ FetchPrices
    \/ DownloadSave
    \/ DownloadSaveFails
    \/ DownloadFails
    \/ EngineInitRejected
    \/ EngineInit
    \/ EngineBuilt
    \/ EngineInitFails
    \/ Construct
    \/ ConstructFails
    \/ AttemptReturnsData
    \/ AttemptReturnsEmpty
    \/ AttemptRaisesValueError
    \/ RetryAfterNetworkError
    \/ LastNetworkError
    \/ AttemptRaisesOtherError
    \/ RetriesExhausted

SpecOffline == InitOffline /\ [][NextOffline]_vars

(* ------------------------------ properties ----------------------------- *)
\* at least one iteration of the simulation loop has completed
Stepped == pc \in {"loop", "return", "done"} /\ i >= 1

\* C1: after every step the recorded portfolio_value equals the recorded cash
\* plus shares * close, and shares * close is the recorded holdings
C1_ValueContinuity ==
    Stepped =>
        /\ df_cash[i] = cash
        /\ holdings[i] = FMul(shares, close[i])
        /\ \A t \in 1..i : portfolio_value[t] = FAdd(df_cash[t], holdings[t])

C1_Witness ==
    /\ pc = "loop"
    /\ i >= 2
    /\ FGt(shares, Flt(0))
    /\ close[i] # Flt(1)
    /\ portfolio_value[i] = FMul(shares, close[i])

\* C2: at every step shares is 0 when FLAT and cash is 0 when LONG; the two
\* are never both positive, and both zero only if initial_capital is 0
C2_StateExclusivity ==
    Stepped =>
        /\ position = 0 => shares = Flt(0)
        /\ position = 1 => cash = Flt(0)
        /\ ~(FGt(shares, Flt(0)) /\ FGt(cash, Flt(0)))
        /\ (shares = Flt(0) /\ cash = Flt(0)) => initial_capital = 0
        /\ \A t \in 1..i :
            /\ holdings[t] = Flt(0) \/ df_cash[t] = Flt(0)
            /\ (holdings[t] = Flt(0) /\ df_cash[t] = Flt(0)) => initial_capital = 0

C2_Witness ==
    /\ pc = "loop"
    /\ i >= 3
    /\ position = 0
    /\ FGt(cash, Flt(0))
    /\ FGt(holdings[i - 1], Flt(0))
    /\ df_cash[i - 1] = Flt(0)

\* C3: cash and shares are never negative, at any step
C3_NoNegativeBalances ==
    /\ ~FLt(cash, Flt(0))
    /\ ~FLt(shares, Flt(0))
    /\ \A t \in 1..Len(df_cash) : ~FLt(df_cash[t], Flt(0))
    /\ \A t \in 1..Len(holdings) : ~FLt(holdings[t], Flt(0))

C3_Witness ==
    /\ pc = "done"
    /\ \E t \in 1..Len(holdings) : FGt(holdings[t], Flt(0))
    /\ \E t \in 2..Len(df_cash) : FGt(df_cash[t], Flt(0)) /\ df_cash[t] # Flt(initial_capital)

\* C4: a defined positive position-change met while FLAT converts all cash
\* into cash / close[t] shares, leaves cash 0 and the state LONG
C4_EnterLong ==
    [][(InLoop /\ ~IsNaN(df_position[Row]) /\ FGt(df_position[Row], Flt(0)) /\ position = 0)
        => (/\ shares' = FDiv(cash, close[Row])
            /\ cash' = Flt(0)
            /\ position' = 1)]_vars

C4_Witness ==
    /\ pc = "loop"
    /\ i >= 2
    /\ FGt(df_position[i], Flt(0))
    /\ position = 1
    /\ FGt(df_cash[i - 1], Flt(0))
    /\ shares = FDiv(df_cash[i - 1], close[i])
    /\ shares # df_cash[i - 1]

\* C5: a defined negative position-change met while LONG converts all shares
\* into shares * close[t] cash, leaves shares 0 and the state FLAT
C5_ExitLong ==
    [][(InLoop /\ ~IsNaN(df_position[Row]) /\ FLt(df_position[Row], Flt(0)) /\ position = 1)
        => (/\ cash' = FMul(shares, close[Row])
            /\ shares' = Flt(0)
            /\ position' = 0)]_vars

C5_Witness ==
    /\ pc = "loop"
    /\ i >= 3
    /\ FLt(df_position[i], Flt(0))
    /\ position = 0
    /\ shares = Flt(0)
    /\ FGt(holdings[i - 1], Flt(0))
    /\ cash = FMul(FDiv(holdings[i - 1], close[i - 1]), close[i])
    /\ close[i] # Flt(1)

\* C6: a step whose position-change is undefined changes neither shares nor
\* cash nor the state, and records cash + shares * close[t] of the state before
C6_CarryForward ==
    [][(InLoop /\ IsNaN(df_position[Row]))
        => (/\ shares' = shares
            /\ cash' = cash
            /\ position' = position
            /\ df_cash'[Row] = cash
            /\ portfolio_value'[Row] = FAdd(cash, FMul(shares, close[Row])))]_vars

C6_Witness ==
    /\ pc = "loop"
    /\ i = 1
    /\ IsNaN(df_position[1])
    /\ initial_capital > 0
    /\ cash = Flt(initial_capital)
    /\ portfolio_value[1] = Flt(initial_capital)

\* C7: a negative position-change while FLAT, a positive one while LONG and a
\* zero one leave shares, cash and the state as they were
C7_NotActionable ==
    [][(/\ InLoop
        /\ ~IsNaN(df_position[Row])
        /\ \/ FLt(df_position[Row], Flt(0)) /\ position = 0
           \/ FGt(df_position[Row], Flt(0)) /\ position = 1
           \/ df_position[Row] = Flt(0))
        => (shares' = shares /\ cash' = cash /\ position' = position)]_vars

C7_Witness ==
    /\ pc = "loop"
    /\ i >= 3
    /\ FGt(df_position[i], Flt(0))
    /\ position = 1
    /\ FGt(holdings[i - 1], Flt(0))
    /\ FGt(shares, Flt(0))

\* C8: after step 0 the simulator is FLAT with no shares, cash equal to
\* initial_capital and portfolio_value[0] equal to initial_capital
C8_StartsFlat ==
    /\ (pc = "loop" /\ i <= 1) =>
        (position = 0 /\ shares = Flt(0) /\ cash = Flt(initial_capital))
    /\ Stepped =>
        /\ holdings[1] = Flt(0)
        /\ df_cash[1] = Flt(initial_capital)
        /\ portfolio_value[1] = Flt(initial_capital)

C8_Witness ==
    /\ pc = "loop"
    /\ i = 1
    /\ signal[1] # 0
    /\ initial_capital > 0
    /\ portfolio_value[1] = Flt(initial_capital)

\* number of steps whose position-change is defined and nonzero
NonzeroEvents(dp) ==
    Cardinality({t \in 1..Len(dp) : ~IsNaN(dp[t]) /\ dp[t] # Flt(0)})

\* C9: the reported num_trades * 2 is at most the number of defined nonzero
\* position-change events
C9_TradePairing ==
    pc \in {"return", "done"} => metrics.num_trades * 2 <= NonzeroEvents(df_position)

\* C10: the reported num_trades is the number of defined nonzero
\* position-change events divided by 2, floored
C10_NumTrades ==
    pc \in {"return", "done"} => metrics.num_trades = NonzeroEvents(df_position) \div 2

\* run has computed its metrics
Reported == pc \in {"return", "done"}

\* number of EXIT LONG transitions the loop executed
Exits == Cardinality({k \in 1..Len(executed) : executed[k].kind = "exit"})

\* C11: the reported num_trades is the number of EXIT LONG transitions the
\* simulator executed; an entry left open at the end adds nothing
C11_RoundTrips ==
    Reported => metrics.num_trades = Exits

\* C12: win_rate is wins / num_trades * 100 when num_trades > 0, else 0
C12_WinRate ==
    Reported =>
        metrics.win_rate =
            Round2(IF metrics.num_trades > 0
                   THEN FMul(FDiv(Flt(Wins(df_position, close)), Flt(metrics.num_trades)),
                             Flt(100))
                   ELSE Flt(0))

\* rows whose position-change is defined and nonzero, in order
EventRows(dp) ==
    SelectSeq([t \in 1..Len(dp) |-> t], LAMBDA t : ~IsNaN(dp[t]) /\ dp[t] # Flt(0))

\* a list of rows taken two at a time: 1st with 2nd, 3rd with 4th, ...
Pairs(rows) ==
    {<<rows[k], rows[k + 1]>> : k \in {j \in 1..Len(rows) : j % 2 = 1 /\ j + 1 <= Len(rows)}}

\* C13: the pairs evaluated for the win rate are the consecutive defined
\* nonzero position-change events two at a time, an undefined or zero step
\* is in no pair, and wins counts the pairs whose exit close > entry close
C13_Pairing ==
    (Reported /\ metrics.num_trades > 0) =>
        /\ Pairs(TradeRows(df_position)) = Pairs(EventRows(df_position))
        /\ Wins(df_position, close) =
             Cardinality({pr \in Pairs(EventRows(df_position)) :
                             FGt(close[pr[2]], close[pr[1]])})

\* rows of the current frame with a positive / negative position-change
BuyRows == {t \in 1..Len(df_position) : FGt(df_position[t], Flt(0))}

SellRows == {t \in 1..Len(df_position) : FLt(df_position[t], Flt(0))}

\* one BUY at a bar closing at 100, then one SELL at a bar closing at 110,
\* with the default capital of 10000
ScenarioD ==
    /\ initial_capital = DefaultCapital
    /\ \E b \in BuyRows : \E x \in SellRows :
        /\ BuyRows = {b}
        /\ SellRows = {x}
        /\ b < x
        /\ close[b] = Flt(100)
        /\ close[x] = Flt(110)

\* C14: in scenario D the simulator holds 100 shares and no cash after the
\* BUY, 11000 cash and no shares after the SELL, and the metrics report
\* total_return 10.00, num_trades 1 and win_rate 100.00
C14_ScenarioD ==
    (Reported /\ ScenarioD) =>
        \E b \in BuyRows : \E x \in SellRows :
            /\ executed = <<[row |-> b, kind |-> "enter"], [row |-> x, kind |-> "exit"]>>
            /\ holdings[b] = FMul(Flt(100), close[b])
            /\ df_cash[b] = Flt(0)
            /\ df_cash[x] = Flt(11000)
            /\ holdings[x] = Flt(0)
            /\ metrics.total_return = Flt(10)
            /\ metrics.num_trades = 1
            /\ metrics.win_rate = Flt(100)

\* the flat series of scenario A under SMA(20/50)
ScenarioA ==
    /\ close = [t \in 1..60 |-> Flt(100)]
    /\ strategy = [kind |-> "SMA", short_window |-> DefaultShort, long_window |-> DefaultLong]

\* C15: in scenario A every signal is 0, no entry executes, portfolio_value
\* stays at initial_capital, and the metrics report num_trades 0,
\* total_return 0.00 and sharpe_ratio 0
C15_ScenarioA ==
    ScenarioA =>
        /\ \A t \in 1..Len(signal) : signal[t] = 0
        /\ executed = <<>>
        /\ \A t \in 1..Len(portfolio_value) : portfolio_value[t] = Flt(initial_capital)
        /\ Reported =>
            /\ metrics.num_trades = 0
            /\ metrics.total_return = Flt(0)
            /\ metrics.sharpe_sq = Flt(0)

C15_Witness ==
    /\ ScenarioA
    /\ pc = "done"
    /\ i = 60
    /\ Len(signal) = 60
    /\ returned # <<>>
    /\ Last(returned).final_capital = Flt(DefaultCapital)

\* C16: a conversion at a close that is zero or negative makes the run fail
\* at that step; no result is returned from a run that executed one
C16_ZeroCloseFails ==
    result = "returned" =>
        \A k \in 1..Len(executed) : FGt(close[executed[k].row], Flt(0))

\* the configuration errors of the error taxonomy
InvalidConfig ==
    \/ initial_capital <= 0
    \/ strategy.kind \in {"SMA", "EMA"}
        /\ (strategy.short_window <= 0 \/ strategy.long_window <= 0)
    \/ strategy.kind = "RSI"
        /\ \/ strategy.window <= 0
           \/ strategy.oversold <= 0
           \/ strategy.overbought <= 0
           \/ strategy.oversold >= strategy.overbought

\* C17: an invalid configuration is rejected before any simulation step runs
\* and never yields a metrics result
C17_ConfigRejected ==
    InvalidConfig =>
        /\ i = 0
        /\ metrics = NoMetrics
        /\ result # "returned"

\* C18: run either completes every simulation step and returns a result with
\* the metrics of the whole series, or fails before any result is returned
C18_AllOrNothing ==
    /\ result = "returned" =>
        /\ pc = "done"
        /\ i = Len(close)
        /\ Len(returned) = 1
        /\ returned[1].portfolio_value = portfolio_value
        /\ Len(returned[1].portfolio_value) = Len(close)
        /\ returned[1].final_capital =
             MarkToMarket(df_cash[Len(close)], shares, close[Len(close)])
        /\ returned[1].metrics =
             CalcMetrics(portfolio_value, df_position, close, initial_capital)
    /\ result # "returned" => returned = <<>>
    /\ pc = "failed" <=> result = "raised"
    /\ pc = "failed" => (i = 0 /\ metrics = NoMetrics)

C18_Witness ==
    /\ result = "returned"
    /\ Len(close) >= 3
    /\ Len(executed) >= 2
    /\ returned[1].metrics.num_trades >= 1

\* the series is shorter than the first row at which the indicator is defined:
\* rolling(w).mean() needs w rows; the RSI needs no more, because where()
\* turns the undefined first difference into 0
TooShort ==
    \/ strategy.kind = "SMA"
        /\ (Len(close) < strategy.short_window \/ Len(close) < strategy.long_window)
    \/ strategy.kind = "RSI" /\ Len(close) < strategy.window

\* C19: on a series too short for the SMA or RSI indicator the loop runs every
\* row as a no-op, FLAT with cash = initial_capital, and the metrics report
\* num_trades = 0 and win_rate = 0
C19_TooShortNoOp ==
    TooShort =>
        /\ position = 0
        /\ shares = Flt(0)
        /\ executed = <<>>
        /\ pc \in {"loop", "return", "done"} => cash = Flt(initial_capital)
        /\ \A t \in 1..Len(df_cash) : df_cash[t] = Flt(initial_capital)
        /\ \A t \in 1..Len(holdings) : holdings[t] = Flt(0)
        /\ Reported =>
            /\ i = Len(close)
            /\ metrics.num_trades = 0
            /\ metrics.win_rate = Flt(0)

C19_Witness ==
    /\ TooShort
    /\ strategy.kind = "RSI"
    /\ strategy.window = DefaultWindow
    /\ Len(close) = MaxBars
    /\ \E t \in 2..Len(close) : close[t] # close[1]
    /\ pc = "done"
    /\ i = Len(close)
    /\ result = "returned"

\* C20: a second run(strategy) on the same engine returns the portfolio
\* series, signal series and metrics of the first
C20_Determinism ==
    Len(returned) = 2 =>
        /\ returned[2].portfolio_value = returned[1].portfolio_value
        /\ returned[2].signal = returned[1].signal
        /\ returned[2].position = returned[1].position
        /\ returned[2].metrics = returned[1].metrics
        /\ returned[2].final_capital = returned[1].final_capital

C20_Witness ==
    /\ Len(returned) = 2
    /\ pc = "done"
    /\ executed # <<>>
    /\ position = 1
    /\ returned[2].metrics.num_trades >= 1

\* the two averages the crossover strategies compare, as the code computes them
ShortAverage ==
    IF strategy.kind = "SMA" THEN RollingMean(close, strategy.short_window)
    ELSE EwmMean(close, strategy.short_window)

LongAverage ==
    IF strategy.kind = "SMA" THEN RollingMean(close, strategy.long_window)
    ELSE EwmMean(close, strategy.long_window)

\* generate_signals has run on the current call
SignalsGenerated == pc \in {"setup", "loop", "return", "done"}

\* C21: for SMA and EMA the signal at every row is +1 iff short average > long
\* average, -1 iff short < long, 0 iff they are equal or one is undefined, and
\* always one of -1, 0, +1
C21_CrossoverSignal ==
    (SignalsGenerated /\ strategy.kind \in {"SMA", "EMA"}) =>
        /\ Len(signal) = Len(close)
        /\ \A t \in 1..Len(signal) :
            LET s == ShortAverage[t]
                l == LongAverage[t]
            IN  /\ signal[t] \in {-1, 0, 1}
                /\ signal[t] = 1 <=> FGt(s, l)
                /\ signal[t] = -1 <=> FLt(s, l)
                /\ signal[t] = 0 <=> (s = l \/ IsNaN(s) \/ IsNaN(l))

C21_Witness ==
    /\ SignalsGenerated
    /\ strategy.kind = "SMA"
    /\ \E t \in 1..Len(signal) : signal[t] = 0 /\ IsNaN(LongAverage[t])
    /\ \E t \in 1..Len(signal) :
        signal[t] = 0 /\ ~IsNaN(LongAverage[t]) /\ ShortAverage[t] = LongAverage[t]
    /\ \E t \in 1..Len(signal) : signal[t] = 1
    /\ \E t \in 1..Len(signal) : signal[t] = -1

\* the RSI column of the current frame
Rsi == CalculateRSI(close, strategy.window)

\* C22: for RSI the signal at every row is +1 iff rsi < oversold, -1 iff
\* rsi > overbought and 0 otherwise, and it is 0 on the leading rows that have
\* fewer than window bars of history
C22_RSISignal ==
    (SignalsGenerated /\ strategy.kind = "RSI") =>
        \A t \in 1..Len(signal) :
            /\ signal[t] = 1 <=> FLt(Rsi[t], Flt(strategy.oversold))
            /\ signal[t] = -1 <=> FGt(Rsi[t], Flt(strategy.overbought))
            /\ t < strategy.window => signal[t] = 0

\* the rolling average gain and loss of the current frame
AvgGain == RollingMean(Gains(FDiffSeries(close)), strategy.window)

AvgLoss == RollingMean(Losses(FDiffSeries(close)), strategy.window)

\* C23: where the average loss is 0 and the average gain is > 0 the RSI is
\* 100, and where both are 0 the RSI is undefined
C23_ZeroLoss ==
    (SignalsGenerated /\ strategy.kind = "RSI") =>
        \A t \in 1..Len(close) :
            /\ (AvgLoss[t] = Flt(0) /\ FGt(AvgGain[t], Flt(0))) => Rsi[t] = Flt(100)
            /\ (AvgLoss[t] = Flt(0) /\ AvgGain[t] = Flt(0)) => IsNaN(Rsi[t])

\* df['daily_return'] of the current frame
DailyReturn == PctChange(portfolio_value)

\* C24: sharpe_ratio is 0 whenever the standard deviation of the daily
\* returns is 0 or undefined, and it is never NaN or infinite
C24_SharpeZero ==
    Reported =>
        /\ (Variance(DailyReturn) = Flt(0) \/ IsNaN(Variance(DailyReturn)))
              => metrics.sharpe_sq = Flt(0)
        /\ metrics.sharpe_sq[2] # 0

\* the drawdown of row t in percent: (pv[t] - max pv[1..t]) / max pv[1..t] * 100
DrawdownPct(t) ==
    LET peak == SeriesMax(SubSeq(portfolio_value, 1, t))
    IN  FMul(FDiv(FSub(portfolio_value[t], peak), peak), Flt(100))

\* C25: max_drawdown is the least drawdown over the rows (to two decimals)
\* and is <= 0
C25_MaxDrawdown ==
    Reported =>
        /\ \E t \in 1..Len(portfolio_value) : metrics.max_drawdown = Round2(DrawdownPct(t))
        /\ \A t \in 1..Len(portfolio_value) :
            ~FLt(Round2(DrawdownPct(t)), metrics.max_drawdown)
        /\ (FLt(metrics.max_drawdown, Flt(0)) \/ metrics.max_drawdown = Flt(0))

\* a method of the fetcher has been called
Called == fetch.pc \in {"loop", "returned", "raised"}

\* C26: when every attempt fails with a network error, the call makes exactly
\* max_retries attempts and then raises; it never returns and never makes
\* more attempts than max_retries
C26_RetryExhaustion ==
    (Called /\ \A j \in 1..Len(history_calls) : Retryable(history_calls[j])) =>
        /\ fetch.pc # "returned"
        /\ Len(history_calls) <= fetcher.max_retries
        /\ fetch.pc = "loop" => fetch.attempt = Len(history_calls)
        /\ fetch.pc = "raised" =>
            /\ Len(history_calls) = fetcher.max_retries
            /\ fetch.raised = "Failed to fetch"

C26_Witness ==
    /\ fetch.pc = "raised"
    /\ fetch.raised = "Failed to fetch"
    /\ fetcher.max_retries >= 2
    /\ Len(history_calls) = fetcher.max_retries
    /\ \A j \in 1..Len(history_calls) : Retryable(history_calls[j])
    /\ Len(sleeps) = fetcher.max_retries - 1

\* C27: when the first k-1 attempts of fetch_data fail with network errors
\* and the k-th returns rows, fetch_data returns those rows after exactly k
\* attempts
C27_RetryThenSuccess ==
    (Called /\ fetch.method = "fetch_data") =>
        \A k \in 1..Len(history_calls) :
            (/\ history_calls[k].kind = "data"
             /\ \A j \in 1..(k - 1) : Retryable(history_calls[j])) =>
                /\ fetch.pc = "returned"
                /\ Len(history_calls) = k
                /\ k <= fetcher.max_retries
                /\ fetch.data.close = history_calls[k].close

C27_Witness ==
    /\ fetch.pc = "returned"
    /\ fetch.method = "fetch_data"
    /\ Len(history_calls) >= 2
    /\ Last(history_calls).kind = "data"
    /\ fetch.data.close = <<1, 2>>
    /\ Len(sleeps) = Len(history_calls) - 1

\* C28: an attempt that raises an exception whose message holds no network
\* keyword is the last one: the call raises at once, without a sleep
C28_NonNetworkNotRetried ==
    Called =>
        \A k \in 1..Len(history_calls) :
            (history_calls[k].kind = "raise" /\ ~IsNetworkError(history_calls[k])) =>
                /\ k = Len(history_calls)
                /\ fetch.pc = "raised"
                /\ fetch.raised \in {"ValueError", "Error fetching"}
                /\ Len(sleeps) = k - 1

C28_Witness ==
    /\ fetch.pc = "raised"
    /\ fetch.raised = "Error fetching"
    /\ fetcher.max_retries >= 2
    /\ Len(history_calls) = 1
    /\ ~IsNetworkError(history_calls[1])
    /\ sleeps = <<>>

\* C29: an attempt of fetch_data or get_latest_price that returns an empty
\* result is the last one: ValueError is raised at once, without a sleep
C29_EmptyNotRetried ==
    Called =>
        \A k \in 1..Len(history_calls) :
            history_calls[k].kind = "empty" =>
                /\ k = Len(history_calls)
                /\ fetch.pc = "raised"
                /\ fetch.raised = "ValueError"
                /\ Len(sleeps) = k - 1

C29_Witness ==
    /\ fetch.pc = "raised"
    /\ fetch.raised = "ValueError"
    /\ fetch.method = "get_latest_price"
    /\ fetcher.max_retries >= 2
    /\ history_calls = <<EmptyOutcome>>
    /\ sleeps = <<>>

\* the variable is set to a string int() does not accept
EnvInvalid(name) == environ[name].set /\ ~IsIntLiteral(environ[name].value)

\* C30: with YFINANCE_TIMEOUT or YFINANCE_MAX_RETRIES set to a non-integer
\* value the constructor does not fail and the fetcher has the timeout and
\* max_retries passed to the constructor
C30_InvalidEnvFallback ==
    (fetch.pc # "new" /\ (EnvInvalid("YFINANCE_TIMEOUT") \/ EnvInvalid("YFINANCE_MAX_RETRIES"))) =>
        /\ fetch.pc # "init_raised"
        /\ EnvInvalid("YFINANCE_TIMEOUT") => fetcher.timeout = fetcher_args.timeout
        /\ EnvInvalid("YFINANCE_MAX_RETRIES") =>
              fetcher.max_retries = fetcher_args.max_retries

\* number of ENTER LONG transitions the loop executed
Enters == Cardinality({k \in 1..Len(executed) : executed[k].kind = "enter"})

\* C33: the executed transitions alternate, starting with an entry: at every
\* point of the run entries minus exits is 0 when FLAT and 1 when LONG, and
\* the k-th transition is an entry for odd k and an exit for even k
C33_Alternation ==
    pc \in {"loop", "return", "done"} =>
        /\ Enters - Exits = position
        /\ position \in {0, 1}
        /\ \A k \in 1..Len(executed) :
               executed[k].kind = (IF k % 2 = 1 THEN "enter" ELSE "exit")
        /\ \A k \in 1..(Len(executed) - 1) : executed[k].row < executed[k + 1].row

C33_Witness ==
    /\ pc = "loop"
    /\ Len(executed) = 3
    /\ position = 1
    /\ executed[1].kind = "enter"
    /\ executed[2].kind = "exit"
    /\ executed[3].kind = "enter"

\* C35: a position-change of +2 met while FLAT converts all cash into
\* cash / close[t] shares and enters LONG, and one of -2 met while LONG
\* converts all shares into shares * close[t] cash and leaves FLAT: the
\* amounts are those of a change of magnitude 1
C35_MagnitudeTwo ==
    [][/\ (InLoop /\ df_position[Row] = Flt(2) /\ position = 0) =>
              (/\ shares' = FDiv(cash, close[Row])
               /\ cash' = Flt(0)
               /\ position' = 1)
       /\ (InLoop /\ df_position[Row] = Flt(-2) /\ position = 1) =>
              (/\ cash' = FMul(shares, close[Row])
               /\ shares' = Flt(0)
               /\ position' = 0)]_vars

C35_Witness ==
    /\ pc = "loop"
    /\ Len(executed) >= 2
    /\ df_position[executed[1].row] = Flt(2)
    /\ df_position[executed[2].row] = Flt(-2)
    /\ executed[1].kind = "enter"
    /\ executed[2].kind = "exit"
    /\ holdings[executed[1].row] = Flt(initial_capital)
    /\ initial_capital > 0
    /\ df_cash[executed[2].row] # Flt(initial_capital)

\* C39: the reported win_rate is a number between 0 and 100 inclusive
C39_WinRateRange ==
    Reported =>
        /\ ~IsNaN(metrics.win_rate)
        /\ ~FLt(metrics.win_rate, Flt(0))
        /\ ~FGt(metrics.win_rate, Flt(100))

\* C38: during a call of fetch_data the k-th sleep lasts 2^k seconds and
\* follows the k-th attempt, which failed with a network error; a call that
\* ran out of attempts has slept max_retries - 1 times (no sleep follows the
\* final attempt) and a call that returned on attempt k has slept k - 1 times
C38_BackoffSchedule ==
    (Called /\ fetch.method = "fetch_data") =>
        /\ \A k \in 1..Len(sleeps) :
               /\ sleeps[k] = 2 ^ k
               /\ k <= Len(history_calls)
               /\ Retryable(history_calls[k])
               /\ k <= fetcher.max_retries - 1
        /\ (fetch.pc = "raised" /\ fetch.raised = "Failed to fetch" /\ history_calls # <<>>) =>
               Len(sleeps) = fetcher.max_retries - 1
        /\ fetch.pc = "returned" => Len(sleeps) = Len(history_calls) - 1
        /\ HasAttempt => Len(sleeps) = Len(history_calls)

C38_Witness ==
    /\ fetch.method = "fetch_data"
    /\ fetch.pc = "raised"
    /\ fetch.raised = "Failed to fetch"
    /\ fetcher.max_retries = 3
    /\ sleeps = <<2, 4>>
    /\ Len(history_calls) = 3

\* |x - y| is at most three units of round-off of y (two rounded operations)
Near(x, y) ==
    Abs(x[1] * y[2] - y[1] * x[2]) * 2 ^ mantissa <= 3 * Abs(y[1]) * x[2]

\* C34 as stated: at every step t >= 1 portfolio_value[t] is
\* cash[t-1] + shares[t-1] * close[t], whatever the step does, and
\* portfolio_value does not change from one FLAT step to the next
C34_TradeKeepsValue ==
    [][(InLoop /\ i >= 1) =>
          /\ portfolio_value'[Row] = Rnd(FAdd(cash, Rnd(FMul(shares, close[Row]))))
          /\ (position = 0 /\ position' = 0) => portfolio_value'[Row] = portfolio_value[i]]_vars

\* C34 amended: at every step t >= 1 that exits or does nothing
\* portfolio_value[t] is cash[t-1] + shares[t-1] * close[t]; at a step that
\* enters it is (cash[t-1] / close[t]) * close[t] as the float format computes
\* it, within rounding of cash[t-1]; portfolio_value does not change from one
\* FLAT step to the next
C34_TradeKeepsValueRounded ==
    [][(InLoop /\ i >= 1) =>
          /\ (position = 0 /\ position' = 1) =>
                /\ portfolio_value'[Row] = Rnd(FMul(Rnd(FDiv(cash, close[Row])), close[Row]))
                /\ Near(portfolio_value'[Row], cash)
          /\ ~(position = 0 /\ position' = 1) =>
                portfolio_value'[Row] = Rnd(FAdd(cash, Rnd(FMul(shares, close[Row]))))
          /\ (position = 0 /\ position' = 0) => portfolio_value'[Row] = portfolio_value[i]]_vars

C34_Witness ==
    /\ pc = "loop"
    /\ i >= 3
    /\ executed # <<>>
    /\ executed[1].row = 2
    /\ portfolio_value[2] # df_cash[1]
    /\ Near(portfolio_value[2], df_cash[1])
    /\ Len(executed) >= 2
    /\ executed[2].kind = "exit"
    /\ position = 0
    /\ portfolio_value[i] = portfolio_value[i - 1]

\* C37: at every step the engine's portfolio_value is the value the
\* reference loop of test_backtesting_logic computes on the same
\* position-change series, prices and capital
C37_ReferenceLoop ==
    pc \in {"loop", "return", "done"} =>
        \A t \in 1..i :
            portfolio_value[t] = RefPortfolio(df_position, close, initial_capital)[t]

\* C32: the run on the first n bars of a history gives, at every step up to
\* n, the signal, position-change, cash, holdings and portfolio_value the run
\* on the whole history gives: no step reads a later bar
C32_NoLookahead ==
    Len(returned) = 2 =>
        \A t \in 1..Len(returned[2].close) :
            /\ returned[2].close[t] = returned[1].close[t]
            /\ returned[2].signal[t] = returned[1].signal[t]
            /\ returned[2].position[t] = returned[1].position[t]
            /\ returned[2].cash[t] = returned[1].cash[t]
            /\ returned[2].holdings[t] = returned[1].holdings[t]
            /\ returned[2].portfolio_value[t] = returned[1].portfolio_value[t]

C32_Witness ==
    /\ Len(returned) = 2
    /\ Len(returned[2].close) = 3
    /\ Len(returned[1].close) = 4
    /\ returned[1].close[4] # returned[1].close[3]
    /\ FGt(returned[2].position[3], Flt(0))
    /\ returned[2].holdings[3] = Flt(initial_capital)
    /\ returned[1].final_capital # returned[2].final_capital

\* C36: run leaves the stored frame as it was (same columns, same closes);
\* a strategy run after another one gives the signals a fresh computation on
\* the stored closes gives and the portfolio a simulation started from the
\* initial capital gives, and the first strategy run again after another one
\* gives its first result
C36_DataUntouched ==
    /\ data_columns = PriceColumns
    /\ \A k \in 1..Len(returned) : returned[k].close = close
    /\ Len(returned) >= 2 =>
          /\ returned[2].signal = StrategySignal(close, returned[2].strategy)
          /\ returned[2].position = Diff(returned[2].signal)
          /\ returned[2].portfolio_value =
                 RefPortfolio(returned[2].position, close, initial_capital)
    /\ Len(returned) = 3 => returned[3] = returned[1]

C36_Witness ==
    /\ Len(returned) = 3
    /\ returned[2].strategy # returned[1].strategy
    /\ returned[2].signal # returned[1].signal
    /\ returned[2].final_capital # returned[1].final_capital
    /\ returned[1].metrics.num_trades >= 1
    /\ returned[2].metrics.num_trades >= 1

\* C31: BacktestEngine(..., use_cache=True, data_dir=...) with a cache file
\* present yields an engine whose prices are the cached ones, and no
\* ticker.history() call is made
C31_OfflineEngine ==
    (/\ offline.op = "engine"
     /\ "use_cache" \in offline.kwargs
     /\ parquet_file.exists
     /\ offline.pc # "called") =>
        /\ offline.pc = "built"
        /\ close = [t \in 1..Len(parquet_file.close) |-> Flt(parquet_file.close[t])]
        /\ history_calls = <<>>

\* C40: download_and_save_data with the file present and force False returns
\* True without a fetch; with force True or the file absent it makes at least
\* one ticker.history() call before it returns; the file changes only after
\* fetch_data returned, and when the fetch failed the call returns False
C40_DownloadCache ==
    [][offline.op = "download" =>
          /\ (offline.pc = "called" /\ parquet_file.exists /\ ~offline.force) =>
                /\ offline'.returned = "True"
                /\ history_calls' = <<>>
                /\ fetch' = fetch
          /\ (offline.pc = "fetching" /\ offline'.pc = "returned") => history_calls # <<>>
          /\ parquet_file' # parquet_file => fetch.pc = "returned"
          /\ (offline'.pc = "returned" /\ fetch.pc \in {"raised", "init_raised"}) =>
                (offline'.returned = "False" /\ parquet_file' = parquet_file)]_vars

====
